---- MODULE Spec2Model ----
(***************************************************************************)
(* The booking / wallet settlement core of cmm_server: CreateBooking and   *)
(* CancelBooking (bookingUsecase), CreateTopup and ConfirmTopup            *)
(* (walletUsecase) and the repository calls they make.                     *)
(*                                                                         *)
(* Every request runs on its own worker.  A worker performs one repository *)
(* call per step, so the steps of concurrent requests interleave exactly   *)
(* at the store boundary, as they do in the program.  The local            *)
(* computation that follows a repository call (including a read of         *)
(* time.Now()) is part of the step of that call.                           *)
(*                                                                         *)
(* Repository semantics (GORM): First() reports ErrRecordNotFound when no   *)
(* row matches; Update() with a WHERE clause that matches no row changes    *)
(* nothing and reports NO error; any call may report a storage error,       *)
(* which the model injects while `faults` is positive.                      *)
(*                                                                         *)
(* Times are whole hours.  Money is in whole units; every price and        *)
(* percentage drawn below makes price * percent / 100 a whole number, so    *)
(* the float64 arithmetic of the program is exact on them.                  *)
(***************************************************************************)
EXTENDS Integers, Sequences, FiniteSets, Bags, TLC

VARIABLES
    now,          \* the clock read by time.Now() / time.Until()
    rooms,        \* meeting_rooms table: id -> [pricePerHour, available]
    bookings,     \* bookings table: sequence of rows, the index is the id
    vouchers,     \* vouchers table: id -> row
    wallets,      \* wallets table: userID -> balance
    topups,       \* topups table: sequence of rows, the index is the id
    transactions, \* transactions table: a bag of rows (ids and paidAt omitted)
    workers,      \* per request worker: the request, its position and locals
    reply,        \* the response the last step returned to its caller, if any
    faults,       \* storage errors still to be injected
    ledgerOps     \* history: bag of <<kind, ref>>: wallet updates that changed a
                  \* row ("debit", "refund", "credit") and successful CreateBooking
                  \* returns ("success"), by booking or topup id

stores == <<rooms, bookings, vouchers, wallets, topups, transactions>>
vars == <<now, rooms, bookings, vouchers, wallets, topups, transactions,
          workers, reply, faults, ledgerOps>>

----------------------------------------------------------------------------
(* Bounds of the model *)

\* bookings rows ever inserted
MaxBookings == 2
\* topups rows ever inserted
MaxTopups == 1
\* storage errors injected in a run of SpecFault
MaxFaults == 1
\* vouchers rows inserted by CreateVoucher
MaxVouchers == 1

(* Program constants *)

\* 24*time.Hour, in hours
CancelWindow == 24
\* ServiceID of a booking transaction
ServiceBooking == 1
\* ServiceID of a topup transaction
ServiceTopup == 2

Workers == {1, 2}

NoVoucher == "none"

IdleWorker ==
    [op |-> "none", pc |-> "idle", result |-> "none",
     customerID |-> "none", roomID |-> "none", startTime |-> 0, endTime |-> 0,
     voucherCode |-> "", pricePerHour |-> 0, totalPrice |-> 0,
     voucherID |-> NoVoucher, refID |-> 0,
     \* UpdateVoucher / CreateVoucher: the voucher row held by the call
     row |-> [code |-> "", discountPercent |-> 0, maxUses |-> 0,
              usedCount |-> 0, validFrom |-> 0, validTo |-> 0],
     \* ApplyVoucher: the request amount and the two amounts of the response
     amount |-> 0, discountAmount |-> 0, finalAmount |-> 0,
     applied |-> 0,        \* history: change this call made to the wallet balance
     expected |-> "none"]  \* history: FirstFailure of the request on arrival

Finish(w, res) == [w EXCEPT !.pc = "done", !.result = res]

NoReply == IdleWorker

\* a worker is free to take the next request; idle workers are
\* interchangeable, so the request goes to the first of them
Free(p) ==
    /\ workers[p].pc = "idle"
    /\ \A q \in Workers : q < p => workers[q].pc # "idle"

\* worker p goes on as w; when w has returned, its response is delivered
\* and the worker is idle again
Deliver(p, w) ==
    /\ workers' = [workers EXCEPT ![p] = IF w.pc = "done" THEN IdleWorker ELSE w]
    /\ reply' = IF w.pc = "done" THEN w ELSE NoReply

\* the outcomes of one repository call: FALSE = no storage error
StoreErrs == IF faults > 0 THEN {FALSE, TRUE} ELSE {FALSE}

Spend(err) == faults' = IF err THEN faults - 1 ELSE faults

----------------------------------------------------------------------------
(* Repositories *)

\* mutant: intervals that only touch count as overlapping
OverlapsTouching(b, startTime, endTime) ==
    \/ (b.startTime <= endTime /\ b.endTime >= startTime)
    \/ (b.startTime < startTime /\ b.endTime > endTime)
    \/ (b.startTime >= startTime /\ b.endTime <= endTime)

\* mutant: only the "completely within" clause of the query is left
OverlapsWithin(b, startTime, endTime) ==
    b.startTime >= startTime /\ b.endTime <= endTime

\* the WHERE clause on the times, lines 146-150
Overlaps(b, startTime, endTime) ==
    \/ (b.startTime < endTime /\ b.endTime > startTime)
    \/ (b.startTime < startTime /\ b.endTime > endTime)
    \/ (b.startTime >= startTime /\ b.endTime <= endTime)

\* mutant: the overlap query counts nothing
CheckRoomAvailabilityAlways(bs, roomID, startTime, endTime) == TRUE

\* mutant: the status filter is missing, cancelled rows are counted too
CheckRoomAvailabilityAnyStatus(bs, roomID, startTime, endTime) ==
    Cardinality({i \in DOMAIN bs :
                    /\ bs[i].roomID = roomID
                    /\ Overlaps(bs[i], startTime, endTime)}) = 0

\* mutant: the status filter is inverted, only cancelled rows are counted
CheckRoomAvailabilityOfCancelled(bs, roomID, startTime, endTime) ==
    Cardinality({i \in DOMAIN bs :
                    /\ bs[i].roomID = roomID
                    /\ bs[i].status = "cancelled"
                    /\ Overlaps(bs[i], startTime, endTime)}) = 0

\* lines 139-158: the count of the rows that match is 0
CheckRoomAvailability(bs, roomID, startTime, endTime) ==
    Cardinality({i \in DOMAIN bs :
                    /\ bs[i].roomID = roomID
                    /\ bs[i].status # "cancelled"
                    /\ Overlaps(bs[i], startTime, endTime)}) = 0

\* the balance of a user's wallet row, 0 when the user has none
Balance(ws, userID) == IF userID \in DOMAIN ws THEN ws[userID] ELSE 0

\* mutant: the balance is set to the amount instead of raised by it
UpdateBalanceAssigns(ws, userID, amount) ==
    [u \in DOMAIN ws |-> IF u = userID THEN amount ELSE ws[u]]

\* UPDATE wallets SET balance = balance + amount WHERE user_id = userID
UpdateBalance(ws, userID, amount) ==
    [u \in DOMAIN ws |-> IF u = userID THEN ws[u] + amount ELSE ws[u]]

\* mutant: the debit without its balance >= amount guard
DeductBalanceUnguarded(ws, userID, amount) ==
    [u \in DOMAIN ws |-> IF u = userID THEN ws[u] - amount ELSE ws[u]]

\* UPDATE wallets SET balance = balance - amount
\*   WHERE user_id = userID AND balance >= amount
DeductBalance(ws, userID, amount) ==
    [u \in DOMAIN ws |->
        IF u = userID /\ ws[u] >= amount THEN ws[u] - amount ELSE ws[u]]

\* History only: the WHERE clause of DeductBalance matches a row
DebitMatches(ws, userID, amount) == userID \in DOMAIN ws /\ ws[userID] >= amount

\* mutant: a completed topup is set back to pending
UpdateTopupStatusToggles(ts, id, status) ==
    [i \in DOMAIN ts |->
        IF i = id
        THEN [ts[i] EXCEPT !.status = IF @ = "pending" THEN status ELSE "pending"]
        ELSE ts[i]]

\* UPDATE topups SET status = status WHERE id = id
UpdateTopupStatus(ts, id, status) ==
    [i \in DOMAIN ts |-> IF i = id THEN [ts[i] EXCEPT !.status = status] ELSE ts[i]]

\* mutant: the status is left as it is
RepoCancelBookingKeeps(bs, id) == bs

\* mutant: the status is switched between booked and cancelled
RepoCancelBookingToggles(bs, id) ==
    [i \in DOMAIN bs |->
        IF i = id
        THEN [bs[i] EXCEPT !.status = IF @ = "booked" THEN "cancelled" ELSE "booked"]
        ELSE bs[i]]

\* UPDATE bookings SET status = 'cancelled' WHERE id = id
RepoCancelBooking(bs, id) ==
    [i \in DOMAIN bs |-> IF i = id THEN [bs[i] EXCEPT !.status = "cancelled"] ELSE bs[i]]

\* UPDATE vouchers SET used_count = used_count + 1 WHERE id = id
IncrementUsedCount(vs, id) ==
    [v \in DOMAIN vs |->
        IF v = id THEN [vs[v] EXCEPT !.usedCount = @ + 1] ELSE vs[v]]

\* SELECT ... WHERE code = ? ... LIMIT 1: the ids of the rows with the code
VouchersByCode(vs, code) == {v \in DOMAIN vs : vs[v].code = code}

GetVoucherByCode(vs, code) == CHOOSE v \in VouchersByCode(vs, code) : TRUE

CreateTransaction(txs, tx) == txs (+) SetToBag({tx})

Transaction(userID, serviceID, serviceRefID, amount, status) ==
    [userID |-> userID, serviceID |-> serviceID, serviceRefID |-> serviceRefID,
     amount |-> amount, status |-> status]

Note(kind, ref) == ledgerOps (+) SetToBag({<<kind, ref>>})

----------------------------------------------------------------------------
(* Clock *)

Tick(points) ==
    /\ \E t \in points : t > now /\ now' = t
    /\ reply' = NoReply
    /\ UNCHANGED <<stores, workers, faults, ledgerOps>>

----------------------------------------------------------------------------
(* bookingUsecase.CreateBooking *)

\* requests that are past validation and have not inserted their row yet
CreatesInFlight ==
    Cardinality({q \in Workers :
        workers[q].pc \in {"cb_room", "cb_avail", "cb_voucher", "cb_incr",
                           "cb_wallet", "cb_insert"}})

\* mutant: the Equal half of the test is missing
InvalidTimeRangeStrict(startTime, endTime) == endTime < startTime

\* line 54: req.EndTime.Before(req.StartTime) || req.EndTime.Equal(req.StartTime)
InvalidTimeRange(startTime, endTime) == endTime <= startTime

\* line 58: req.StartTime.Before(time.Now())
PastBooking(startTime) == startTime < now

\* History only: the first precondition of section 4.1 of the specification,
\* in its order, that the request (customer c, room r, slot s, voucher code)
\* fails in the current state; "ok" when it fails none.
FirstFailure(c, r, s, code) ==
    LET vs    == {v \in DOMAIN vouchers : vouchers[v].code = code}
        v     == vouchers[CHOOSE x \in vs : TRUE]
        base  == rooms[r].pricePerHour * (s[2] - s[1])
        price == IF code = "" THEN base
                 ELSE base - (base * v.discountPercent) \div 100
    IN  IF s[2] <= s[1] THEN "InvalidTimeRange"
        ELSE IF s[1] < now THEN "PastBooking"
        ELSE IF r \notin DOMAIN rooms THEN "RoomNotFound"
        ELSE IF ~rooms[r].available THEN "RoomUnavailable"
        ELSE IF \E i \in DOMAIN bookings :
                    /\ bookings[i].roomID = r
                    /\ bookings[i].status # "cancelled"
                    /\ bookings[i].startTime < s[2]
                    /\ s[1] < bookings[i].endTime
             THEN "SlotConflict"
        ELSE IF code # "" /\ vs = {} THEN "InvalidVoucher"
        ELSE IF code # "" /\ (now < v.validFrom \/ now > v.validTo)
             THEN "VoucherExpired"
        ELSE IF code # "" /\ v.maxUses > 0 /\ v.usedCount >= v.maxUses
             THEN "VoucherExhausted"
        ELSE IF c \notin DOMAIN wallets THEN "WalletNotFound"
        ELSE IF wallets[c] < price THEN "InsufficientBalance"
        ELSE "ok"

\* lines 49-60: the request arrives and its times are validated
CreateBookingStart(p, requests) ==
    /\ Free(p)
    /\ \E <<c, r, s, code>> \in requests :
         LET w == [IdleWorker EXCEPT !.op = "CreateBooking", !.customerID = c,
                                     !.roomID = r, !.startTime = s[1],
                                     !.endTime = s[2], !.voucherCode = code,
                                     !.expected = FirstFailure(c, r, s, code)]
         IN  IF InvalidTimeRange(w.startTime, w.endTime)
                 THEN Deliver(p, Finish(w, "InvalidTimeRange"))
             ELSE IF PastBooking(w.startTime)
                 THEN Deliver(p, Finish(w, "PastBooking"))
             ELSE /\ Len(bookings) + CreatesInFlight < MaxBookings
                  /\ Deliver(p, [w EXCEPT !.pc = "cb_room"])
    /\ UNCHANGED <<now, stores, faults, ledgerOps>>

\* lines 62-73: meetingRoomRepo.GetMeetingRoomByID
CreateBookingRoom(p) ==
    /\ workers[p].pc = "cb_room"
    /\ \E err \in StoreErrs :
         /\ Spend(err)
         /\ LET w == workers[p]
            IN  Deliver(p, IF err THEN Finish(w, "StoreError")
                    ELSE IF w.roomID \notin DOMAIN rooms THEN Finish(w, "RoomNotFound")
                    ELSE IF ~rooms[w.roomID].available THEN Finish(w, "RoomUnavailable")
                    ELSE [w EXCEPT !.pc = "cb_avail",
                                   !.pricePerHour = rooms[w.roomID].pricePerHour])
    /\ UNCHANGED <<now, stores, ledgerOps>>

\* lines 75-86: bookingRepo.CheckRoomAvailability, then the base price
CreateBookingAvailability(p) ==
    /\ workers[p].pc = "cb_avail"
    /\ \E err \in StoreErrs :
         /\ Spend(err)
         /\ LET w == workers[p]
            IN  Deliver(p, IF err THEN Finish(w, "StoreError")
                    ELSE IF ~CheckRoomAvailability(bookings, w.roomID,
                                                   w.startTime, w.endTime)
                         THEN Finish(w, "SlotConflict")
                    ELSE [w EXCEPT
                            !.pc = IF w.voucherCode # "" THEN "cb_voucher"
                                                         ELSE "cb_wallet",
                            !.totalPrice = w.pricePerHour * (w.endTime - w.startTime)])
    /\ UNCHANGED <<now, stores, ledgerOps>>

\* lines 104, 212: the usage budget of a voucher row is spent
Exhausted(v) == v.maxUses > 0 /\ v.usedCount >= v.maxUses

\* lines 101, 209: now is outside [validFrom, validTo]
NotValidNow(v) == now < v.validFrom \/ now > v.validTo

\* mutant: the division is done before the multiplication
DiscountDividesFirst(amount, discountPercent) == (amount \div 100) * discountPercent

\* mutant: the percentage is subtracted as an amount
DiscountFlat(amount, discountPercent) == discountPercent

\* line 109: totalPrice * float64(DiscountPercent) / 100.  Prices are whole
\* units and every price the specifications use makes the product a
\* multiple of 100, so the quotient is exact
Discount(amount, discountPercent) == (amount * discountPercent) \div 100

\* lines 90-111: voucherRepo.GetVoucherByCode, validation and discount
CreateBookingVoucher(p) ==
    /\ workers[p].pc = "cb_voucher"
    /\ \E err \in StoreErrs :
         /\ Spend(err)
         /\ LET w == workers[p]
            IN  Deliver(p, IF err THEN Finish(w, "StoreError")
                    ELSE IF VouchersByCode(vouchers, w.voucherCode) = {}
                         THEN Finish(w, "InvalidVoucher")
                    ELSE LET id == GetVoucherByCode(vouchers, w.voucherCode)
                             v  == vouchers[id]
                         IN  IF NotValidNow(v) THEN Finish(w, "VoucherExpired")
                             ELSE IF Exhausted(v) THEN Finish(w, "VoucherExhausted")
                             ELSE [w EXCEPT
                                     !.pc = "cb_incr",
                                     !.totalPrice = @ - Discount(@, v.discountPercent),
                                     !.voucherID = id])
    /\ UNCHANGED <<now, stores, ledgerOps>>

\* lines 113-116: voucherRepo.IncrementUsedCount; an error is only logged
CreateBookingIncrement(p) ==
    /\ workers[p].pc = "cb_incr"
    /\ \E err \in StoreErrs :
         /\ Spend(err)
         /\ vouchers' = IF err THEN vouchers
                        ELSE IncrementUsedCount(vouchers, workers[p].voucherID)
    /\ Deliver(p, [workers[p] EXCEPT !.pc = "cb_wallet"])
    /\ UNCHANGED <<now, rooms, bookings, wallets, topups, transactions, ledgerOps>>

\* line 124: wallet.Balance < totalPrice
InsufficientBalance(balance, totalPrice) == balance < totalPrice

\* lines 119-126: walletRepo.GetWalletByUserID and the balance check
CreateBookingWallet(p) ==
    /\ workers[p].pc = "cb_wallet"
    /\ \E err \in StoreErrs :
         /\ Spend(err)
         /\ LET w == workers[p]
            IN  Deliver(p, IF err \/ w.customerID \notin DOMAIN wallets
                         THEN Finish(w, "WalletNotFound")
                    ELSE IF InsufficientBalance(wallets[w.customerID], w.totalPrice)
                         THEN Finish(w, "InsufficientBalance")
                    ELSE [w EXCEPT !.pc = "cb_insert"])
    /\ UNCHANGED <<now, stores, ledgerOps>>

\* mutant: the row is stored as pending until the payment is recorded
NewBookingPending(w) ==
    [customerID |-> w.customerID, roomID |-> w.roomID,
     startTime |-> w.startTime, endTime |-> w.endTime,
     totalPrice |-> w.totalPrice, voucherID |-> w.voucherID, status |-> "pending"]

\* lines 128-138: the row CreateBooking inserts
NewBooking(w) ==
    [customerID |-> w.customerID, roomID |-> w.roomID,
     startTime |-> w.startTime, endTime |-> w.endTime,
     totalPrice |-> w.totalPrice, voucherID |-> w.voucherID, status |-> "booked"]

\* lines 128-145: bookingRepo.CreateBooking
CreateBookingInsert(p) ==
    /\ workers[p].pc = "cb_insert"
    /\ \E err \in StoreErrs :
         /\ Spend(err)
         /\ LET w == workers[p]
            IN  IF err
                THEN /\ Deliver(p, Finish(w, "StoreError"))
                     /\ UNCHANGED bookings
                ELSE /\ bookings' = Append(bookings, NewBooking(w))
                     /\ Deliver(p, [w EXCEPT !.pc = "cb_debit", !.refID = Len(bookings) + 1])
    /\ UNCHANGED <<now, rooms, vouchers, wallets, topups, transactions, ledgerOps>>

\* lines 147-151: walletRepo.DeductBalance
CreateBookingDebit(p) ==
    /\ workers[p].pc = "cb_debit"
    /\ \E err \in StoreErrs :
         /\ Spend(err)
         /\ LET w  == workers[p]
                ws == DeductBalance(wallets, w.customerID, w.totalPrice)
            IN  IF err
                THEN /\ Deliver(p, Finish(w, "PaymentFailed"))
                     /\ UNCHANGED <<wallets, ledgerOps>>
                ELSE /\ wallets' = ws
                     /\ ledgerOps' =
                            IF DebitMatches(wallets, w.customerID, w.totalPrice)
                            THEN Note("debit", w.refID) ELSE ledgerOps
                     /\ Deliver(p, [w EXCEPT !.pc = "cb_txn",
                                      !.applied = Balance(ws, w.customerID)
                                                  - Balance(wallets, w.customerID)])
    /\ UNCHANGED <<now, rooms, bookings, vouchers, topups, transactions>>

\* lines 153-179: transactionRepo.CreateTransaction (an error is only
\* logged) and the successful return
CreateBookingTransaction(p) ==
    /\ workers[p].pc = "cb_txn"
    /\ \E err \in StoreErrs :
         /\ Spend(err)
         /\ LET w == workers[p]
            IN  transactions' =
                    IF err THEN transactions
                    ELSE CreateTransaction(transactions,
                            Transaction(w.customerID, ServiceBooking, w.refID,
                                        w.totalPrice, "completed"))
    /\ Deliver(p, Finish(workers[p], "ok"))
    /\ ledgerOps' = Note("success", workers[p].refID)
    /\ UNCHANGED <<now, rooms, bookings, vouchers, wallets, topups>>

CreateBookingStep(p) ==
    \/ CreateBookingRoom(p)
    \/ CreateBookingAvailability(p)
    \/ CreateBookingVoucher(p)
    \/ CreateBookingIncrement(p)
    \/ CreateBookingWallet(p)
    \/ CreateBookingInsert(p)
    \/ CreateBookingDebit(p)
    \/ CreateBookingTransaction(p)

----------------------------------------------------------------------------
(* bookingUsecase.CancelBooking *)

\* mutant: the boundary itself is refused
TooLateToCancelInclusive(startTime) == startTime - now <= CancelWindow

\* line 261: time.Until(booking.StartTime) < 24*time.Hour
TooLateToCancel(startTime) == startTime - now < CancelWindow

\* mutant: anyone may cancel any booking
UnauthorizedNever(booking, customerID) == FALSE

\* line 252: booking.CustomerID != customerID
Unauthorized(booking, customerID) == booking.customerID # customerID

\* mutant: the status of the booking is not looked at
AlreadyCancelledNever(booking) == FALSE

\* line 256: booking.Status == "cancelled"
AlreadyCancelled(booking) == booking.status = "cancelled"

\* lines 241-263: bookingRepo.GetBookingByID and the checks on the row read
CancelBookingStart(p, customers, ids) ==
    /\ Free(p)
    /\ \E c \in customers, id \in ids, err \in StoreErrs :
         /\ Spend(err)
         /\ LET w == [IdleWorker EXCEPT !.op = "CancelBooking", !.customerID = c,
                                        !.refID = id]
            IN  Deliver(p, IF err THEN Finish(w, "StoreError")
                    ELSE IF id \notin DOMAIN bookings THEN Finish(w, "BookingNotFound")
                    ELSE IF Unauthorized(bookings[id], c) THEN Finish(w, "Unauthorized")
                    ELSE IF AlreadyCancelled(bookings[id])
                         THEN Finish(w, "AlreadyCancelled")
                    ELSE IF TooLateToCancel(bookings[id].startTime)
                         THEN Finish(w, "TooLateToCancel")
                    ELSE [w EXCEPT !.pc = "cn_cancel",
                                   !.startTime = bookings[id].startTime,
                                   !.totalPrice = bookings[id].totalPrice])
    /\ UNCHANGED <<now, stores, ledgerOps>>

\* lines 265-268: bookingRepo.CancelBooking
CancelBookingCancel(p) ==
    /\ workers[p].pc = "cn_cancel"
    /\ \E err \in StoreErrs :
         /\ Spend(err)
         /\ LET w == workers[p]
            IN  IF err
                THEN /\ Deliver(p, Finish(w, "StoreError"))
                     /\ UNCHANGED bookings
                ELSE /\ bookings' = RepoCancelBooking(bookings, w.refID)
                     /\ Deliver(p, [workers[p] EXCEPT !.pc = "cn_refund"])
    /\ UNCHANGED <<now, rooms, vouchers, wallets, topups, transactions, ledgerOps>>

\* lines 270-274: walletRepo.UpdateBalance with the price read at the start
CancelBookingRefund(p) ==
    /\ workers[p].pc = "cn_refund"
    /\ \E err \in StoreErrs :
         /\ Spend(err)
         /\ LET w  == workers[p]
                ws == UpdateBalance(wallets, w.customerID, w.totalPrice)
            IN  IF err
                THEN /\ Deliver(p, Finish(w, "RefundFailed"))
                     /\ UNCHANGED <<wallets, ledgerOps>>
                ELSE /\ wallets' = ws
                     /\ ledgerOps' = IF w.customerID \in DOMAIN wallets
                                     THEN Note("refund", w.refID) ELSE ledgerOps
                     /\ Deliver(p, [w EXCEPT !.pc = "cn_txn",
                                      !.applied = Balance(ws, w.customerID)
                                                  - Balance(wallets, w.customerID)])
    /\ UNCHANGED <<now, rooms, bookings, vouchers, topups, transactions>>

\* lines 276-290: the refund transaction (an error is only logged) and the
\* successful return
CancelBookingTransaction(p) ==
    /\ workers[p].pc = "cn_txn"
    /\ \E err \in StoreErrs :
         /\ Spend(err)
         /\ LET w == workers[p]
            IN  transactions' =
                    IF err THEN transactions
                    ELSE CreateTransaction(transactions,
                            Transaction(w.customerID, ServiceBooking, w.refID,
                                        -w.totalPrice, "refunded"))
    /\ Deliver(p, Finish(workers[p], "ok"))
    /\ UNCHANGED <<now, rooms, bookings, vouchers, wallets, topups, ledgerOps>>

CancelBookingStep(p) ==
    \/ CancelBookingCancel(p)
    \/ CancelBookingRefund(p)
    \/ CancelBookingTransaction(p)

----------------------------------------------------------------------------
(* walletUsecase.CreateTopup *)

TopupsInFlight == Cardinality({q \in Workers : workers[q].pc = "tu_insert"})

\* lines 199-209: walletRepo.GetWalletByUserID
CreateTopupStart(p, users, amounts) ==
    /\ Free(p)
    /\ \E u \in users, a \in amounts, err \in StoreErrs :
         /\ Spend(err)
         /\ LET w == [IdleWorker EXCEPT !.op = "CreateTopup", !.customerID = u,
                                        !.totalPrice = a]
            IN  IF err
                    THEN Deliver(p, Finish(w, "StoreError"))
                ELSE IF u \notin DOMAIN wallets
                    THEN Deliver(p, Finish(w, "WalletNotFound"))
                ELSE /\ Len(topups) + TopupsInFlight < MaxTopups
                     /\ Deliver(p, [w EXCEPT !.pc = "tu_insert"])
    /\ UNCHANGED <<now, stores, ledgerOps>>

\* lines 211-231: walletRepo.CreateTopup
CreateTopupInsert(p) ==
    /\ workers[p].pc = "tu_insert"
    /\ \E err \in StoreErrs :
         /\ Spend(err)
         /\ LET w == workers[p]
            IN  IF err
                THEN /\ Deliver(p, Finish(w, "StoreError"))
                     /\ UNCHANGED topups
                ELSE /\ topups' = Append(topups,
                            [userID |-> w.customerID, amount |-> w.totalPrice,
                             status |-> "pending"])
                     /\ Deliver(p, Finish([w EXCEPT !.refID = Len(topups) + 1], "ok"))
    /\ UNCHANGED <<now, rooms, bookings, vouchers, wallets, transactions, ledgerOps>>

----------------------------------------------------------------------------
(* walletUsecase.ConfirmTopup *)

\* mutant: the status is not looked at
NotPendingIgnored(status) == FALSE

\* line 246: topup.Status != "pending"
NotPending(status) == status # "pending"

\* lines 234-248: walletRepo.GetTopupByID and the status check
ConfirmTopupStart(p, ids) ==
    /\ Free(p)
    /\ \E id \in ids, err \in StoreErrs :
         /\ Spend(err)
         /\ LET w == [IdleWorker EXCEPT !.op = "ConfirmTopup", !.refID = id]
            IN  Deliver(p, IF err THEN Finish(w, "StoreError")
                    ELSE IF id \notin DOMAIN topups THEN Finish(w, "TopupNotFound")
                    ELSE IF NotPending(topups[id].status) THEN Finish(w, "NotPending")
                    ELSE [w EXCEPT !.pc = "ct_status",
                                   !.customerID = topups[id].userID,
                                   !.totalPrice = topups[id].amount])
    /\ UNCHANGED <<now, stores, ledgerOps>>

\* lines 250-253: walletRepo.UpdateTopupStatus
ConfirmTopupStatus(p) ==
    /\ workers[p].pc = "ct_status"
    /\ \E err \in StoreErrs :
         /\ Spend(err)
         /\ LET w == workers[p]
            IN  IF err
                THEN /\ Deliver(p, Finish(w, "StoreError"))
                     /\ UNCHANGED topups
                ELSE /\ topups' = UpdateTopupStatus(topups, w.refID, "completed")
                     /\ Deliver(p, [workers[p] EXCEPT !.pc = "ct_credit"])
    /\ UNCHANGED <<now, rooms, bookings, vouchers, wallets, transactions, ledgerOps>>

\* lines 255-259: walletRepo.UpdateBalance
ConfirmTopupCredit(p) ==
    /\ workers[p].pc = "ct_credit"
    /\ \E err \in StoreErrs :
         /\ Spend(err)
         /\ LET w  == workers[p]
                ws == UpdateBalance(wallets, w.customerID, w.totalPrice)
            IN  IF err
                THEN /\ Deliver(p, Finish(w, "WalletUpdateFailed"))
                     /\ UNCHANGED <<wallets, ledgerOps>>
                ELSE /\ wallets' = ws
                     /\ ledgerOps' = IF w.customerID \in DOMAIN wallets
                                     THEN Note("credit", w.refID) ELSE ledgerOps
                     /\ Deliver(p, [w EXCEPT !.pc = "ct_txn",
                                      !.applied = Balance(ws, w.customerID)
                                                  - Balance(wallets, w.customerID)])
    /\ UNCHANGED <<now, rooms, bookings, vouchers, topups, transactions>>

\* lines 261-275: the topup transaction (an error is only logged) and the
\* successful return
ConfirmTopupTransaction(p) ==
    /\ workers[p].pc = "ct_txn"
    /\ \E err \in StoreErrs :
         /\ Spend(err)
         /\ LET w == workers[p]
            IN  transactions' =
                    IF err THEN transactions
                    ELSE CreateTransaction(transactions,
                            Transaction(w.customerID, ServiceTopup, w.refID,
                                        w.totalPrice, "completed"))
    /\ Deliver(p, Finish(workers[p], "ok"))
    /\ UNCHANGED <<now, rooms, bookings, vouchers, wallets, topups, ledgerOps>>

ConfirmTopupStep(p) ==
    \/ ConfirmTopupStatus(p)
    \/ ConfirmTopupCredit(p)
    \/ ConfirmTopupTransaction(p)

----------------------------------------------------------------------------
(* voucherUsecase.UpdateVoucher: the row is read, changed in memory and    *)
(* written back whole.  A request is [id, code, discountPercent, maxUses,  *)
(* validFrom, validTo]; validFrom and validTo are sets, empty when the     *)
(* field is absent from the request.                                       *)

\* voucherRepo.UpdateVoucher: db.Save writes every column of the row
SaveVoucher(vs, id, row) ==
    [v \in DOMAIN vs \cup {id} |-> IF v = id THEN row ELSE vs[v]]

\* lines 166-177: the fields of the request that overwrite the row read;
\* MaxUses is overwritten by every request (req.MaxUses >= 0 always holds)
Modify(row, rq) ==
    [row EXCEPT
        !.discountPercent = IF rq.discountPercent > 0 THEN rq.discountPercent ELSE @,
        !.maxUses = IF rq.maxUses >= 0 THEN rq.maxUses ELSE @,
        !.validFrom = IF rq.validFrom # {} THEN CHOOSE t \in rq.validFrom : TRUE ELSE @,
        !.validTo = IF rq.validTo # {} THEN CHOOSE t \in rq.validTo : TRUE ELSE @]

\* mutant: the dates are not compared
InvalidDatesNever(row) == FALSE

\* lines 180, 49: voucher.ValidTo.Before(voucher.ValidFrom)
InvalidDates(row) == row.validTo < row.validFrom

\* lines 148-182: voucherRepo.GetVoucherByID, then the changes in memory
UpdateVoucherStart(p, requests) ==
    /\ Free(p)
    /\ \E rq \in requests, err \in StoreErrs :
         /\ Spend(err)
         /\ LET w == [IdleWorker EXCEPT !.op = "UpdateVoucher", !.voucherID = rq.id,
                                        !.voucherCode = rq.code]
            IN  Deliver(p, IF err THEN Finish(w, "StoreError")
                    ELSE IF rq.id \notin DOMAIN vouchers
                         THEN Finish(w, "VoucherNotFound")
                    ELSE LET row == Modify(vouchers[rq.id], rq)
                         IN  IF rq.code # "" THEN [w EXCEPT !.pc = "uv_code", !.row = row]
                             ELSE IF InvalidDates(row) THEN Finish(w, "InvalidDates")
                             ELSE [w EXCEPT !.pc = "uv_save", !.row = row])
    /\ UNCHANGED <<now, stores, ledgerOps>>

\* lines 157-164: voucherRepo.GetVoucherByCode for a new code; any error of
\* the lookup counts as "no conflict"
UpdateVoucherCode(p) ==
    /\ workers[p].pc = "uv_code"
    /\ \E err \in StoreErrs :
         /\ Spend(err)
         /\ LET w   == workers[p]
                row == [w.row EXCEPT !.code = w.voucherCode]
            IN  Deliver(p, IF /\ ~err
                              /\ VouchersByCode(vouchers, w.voucherCode) # {}
                              /\ GetVoucherByCode(vouchers, w.voucherCode) # w.voucherID
                           THEN Finish(w, "VoucherCodeExists")
                    ELSE IF InvalidDates(row) THEN Finish(w, "InvalidDates")
                    ELSE [w EXCEPT !.pc = "uv_save", !.row = row])
    /\ UNCHANGED <<now, stores, ledgerOps>>

\* line 184: voucherRepo.UpdateVoucher
UpdateVoucherSave(p) ==
    /\ workers[p].pc = "uv_save"
    /\ \E err \in StoreErrs :
         /\ Spend(err)
         /\ LET w == workers[p]
            IN  IF err
                THEN /\ Deliver(p, Finish(w, "StoreError"))
                     /\ UNCHANGED vouchers
                ELSE /\ vouchers' = SaveVoucher(vouchers, w.voucherID, w.row)
                     /\ Deliver(p, Finish(w, "ok"))
    /\ UNCHANGED <<now, rooms, bookings, wallets, topups, transactions, ledgerOps>>

UpdateVoucherStep(p) ==
    \/ UpdateVoucherCode(p)
    \/ UpdateVoucherSave(p)

----------------------------------------------------------------------------
(* voucherUsecase.CreateVoucher.  A request is [code, discountPercent,     *)
(* maxUses, validFrom, validTo].                                           *)

\* uuid.New(): the ids of the rows CreateVoucher inserts, in order
NewVoucherIDs == <<"n1", "n2", "n3">>

VouchersCreated ==
    Cardinality(DOMAIN vouchers \cap {NewVoucherIDs[i] : i \in DOMAIN NewVoucherIDs})

VouchersInFlight == Cardinality({q \in Workers : workers[q].pc = "cv_insert"})

\* voucherRepo.CreateVoucher: INSERT of the row under a fresh id
InsertVoucher(vs, id, row) ==
    [v \in DOMAIN vs \cup {id} |-> IF v = id THEN row ELSE vs[v]]

\* lines 37-64: voucherRepo.GetVoucherByCode, the dates, the new row
CreateVoucherStart(p, requests) ==
    /\ Free(p)
    /\ \E rq \in requests, err \in StoreErrs :
         /\ Spend(err)
         /\ LET w == [IdleWorker EXCEPT
                        !.op = "CreateVoucher", !.voucherCode = rq.code,
                        !.row = [code |-> rq.code,
                                 discountPercent |-> rq.discountPercent,
                                 maxUses |-> rq.maxUses, usedCount |-> 0,
                                 validFrom |-> rq.validFrom, validTo |-> rq.validTo]]
            IN  IF err THEN Deliver(p, Finish(w, "StoreError"))
                ELSE IF VouchersByCode(vouchers, rq.code) # {}
                     THEN Deliver(p, Finish(w, "VoucherCodeExists"))
                ELSE IF InvalidDates(w.row)
                     THEN Deliver(p, Finish(w, "InvalidDates"))
                ELSE /\ VouchersCreated + VouchersInFlight < MaxVouchers
                     /\ Deliver(p, [w EXCEPT !.pc = "cv_insert"])
    /\ UNCHANGED <<now, stores, ledgerOps>>

\* lines 66-79: voucherRepo.CreateVoucher
CreateVoucherInsert(p) ==
    /\ workers[p].pc = "cv_insert"
    /\ \E err \in StoreErrs :
         /\ Spend(err)
         /\ LET w  == workers[p]
                id == NewVoucherIDs[VouchersCreated + 1]
            IN  IF err
                THEN /\ Deliver(p, Finish(w, "StoreError"))
                     /\ UNCHANGED vouchers
                ELSE /\ vouchers' = InsertVoucher(vouchers, id, w.row)
                     /\ Deliver(p, Finish([w EXCEPT !.voucherID = id], "ok"))
    /\ UNCHANGED <<now, rooms, bookings, wallets, topups, transactions, ledgerOps>>

----------------------------------------------------------------------------
(* voucherUsecase.ApplyVoucher: one read of the voucher, then arithmetic  *)

\* mutant: the discount is taken as the final amount
ApplyDiscountSwapped(amount, discountPercent) == amount - (amount * discountPercent) \div 100

\* line 217: discountAmount := req.Amount * float64(DiscountPercent) / 100.
\* Amounts are whole units and every amount the specifications use makes
\* amount * discountPercent a multiple of 100, so the quotient is exact
ApplyDiscount(amount, discountPercent) == (amount * discountPercent) \div 100

\* mutant: an accepted voucher is counted as used, as CreateBooking does
ApplyVoucherCounting(p, codes, amounts) ==
    /\ Free(p)
    /\ \E code \in codes, amount \in amounts :
         /\ VouchersByCode(vouchers, code) # {}
         /\ LET id == GetVoucherByCode(vouchers, code)
                w  == [IdleWorker EXCEPT !.op = "ApplyVoucher", !.voucherCode = code,
                                         !.amount = amount, !.voucherID = id]
            IN  /\ ~NotValidNow(vouchers[id])
                /\ ~Exhausted(vouchers[id])
                /\ vouchers' = IncrementUsedCount(vouchers, id)
                /\ Deliver(p, Finish(w, "ok"))
    /\ UNCHANGED <<now, rooms, bookings, wallets, topups, transactions, faults, ledgerOps>>

\* lines 198-227
ApplyVoucher(p, codes, amounts) ==
    /\ Free(p)
    /\ \E code \in codes, amount \in amounts, err \in StoreErrs :
         /\ Spend(err)
         /\ LET w == [IdleWorker EXCEPT !.op = "ApplyVoucher", !.voucherCode = code,
                                        !.amount = amount]
            IN  Deliver(p, IF err THEN Finish(w, "StoreError")
                    ELSE IF VouchersByCode(vouchers, code) = {}
                         THEN Finish(w, "InvalidVoucher")
                    ELSE LET id == GetVoucherByCode(vouchers, code)
                             v  == vouchers[id]
                             d  == ApplyDiscount(amount, v.discountPercent)
                         IN  IF NotValidNow(v) THEN Finish(w, "VoucherExpired")
                             ELSE IF Exhausted(v) THEN Finish(w, "VoucherExhausted")
                             ELSE Finish([w EXCEPT !.voucherID = id,
                                                   !.discountAmount = d,
                                                   !.finalAmount = amount - d], "ok"))
    /\ UNCHANGED <<now, stores, ledgerOps>>

----------------------------------------------------------------------------
(* meetingRoomUsecase.UpdateMeetingRoom, by the owner of the room: a zero  *)
(* price and an absent availability leave the field as it is.  avail is a  *)
(* set: empty when the request has no "available" field.                   *)

UpdateMeetingRoom(roomIDs, prices, avails) ==
    /\ \E r \in roomIDs \cap DOMAIN rooms, price \in prices, avail \in avails :
         /\ rooms' = [rooms EXCEPT ![r] =
                [pricePerHour |-> IF price > 0 THEN price ELSE @.pricePerHour,
                 available |-> IF avail = {} THEN @.available
                               ELSE CHOOSE a \in avail : TRUE]]
         /\ rooms' # rooms
    /\ reply' = NoReply
    /\ UNCHANGED <<now, bookings, vouchers, wallets, topups, transactions,
                   workers, faults, ledgerOps>>

----------------------------------------------------------------------------
(* The store at start-up: rooms, wallets and vouchers created beforehand   *)

InitRooms ==
    [r \in {"r1", "r2"} |->
        [pricePerHour |-> 10, available |-> (r = "r1")]]

InitWallets == [u \in {"u1", "u2"} |-> IF u = "u1" THEN 25 ELSE 20]

Voucher(code, discountPercent, maxUses, usedCount, validFrom, validTo) ==
    [code |-> code, discountPercent |-> discountPercent, maxUses |-> maxUses,
     usedCount |-> usedCount, validFrom |-> validFrom, validTo |-> validTo]

InitVouchers ==
    [v \in {"v1", "v2", "v3"} |->
        CASE v = "v1" -> Voucher("HALF", 50, 1, 0, 0, 24)
          [] v = "v2" -> Voucher("USED", 10, 1, 1, 0, 48)
          [] v = "v3" -> Voucher("LATE", 10, 1, 1, 24, 48)]

\* a topup that CreateTopup has recorded and that awaits its confirmation
InitTopups == <<[userID |-> "u1", amount |-> 10, status |-> "pending"]>>

InitWith(f, ts) ==
    /\ now = 0
    /\ rooms = InitRooms
    /\ bookings = <<>>
    /\ vouchers = InitVouchers
    /\ wallets = InitWallets
    /\ topups = ts
    /\ transactions = EmptyBag
    /\ workers = [p \in Workers |-> IdleWorker]
    /\ reply = NoReply
    /\ faults = f
    /\ ledgerOps = EmptyBag

Init == InitWith(0, InitTopups)

----------------------------------------------------------------------------
(* Concurrent requests of one customer on one room, no storage errors, at  *)
(* one instant: the steps of two workers interleave freely.  One topup is  *)
(* pending from the start.                                                 *)

Customers == {"u1"}
\* <<customer, room, <<start, end>>, voucher code>>
Requests ==
    { <<"u1", "r1", <<48, 50>>, "">>,
      <<"u1", "r1", <<50, 52>>, "HALF">> }
TopupAmounts == {10}
BookingIDs == 1 .. MaxBookings
TopupIDs == 1 .. (MaxTopups + 1)

Next ==
    \/ \E p \in Workers :
        \/ CreateBookingStart(p, Requests)
        \/ CreateBookingStep(p)
        \/ CancelBookingStart(p, Customers, BookingIDs)
        \/ CancelBookingStep(p)
        \/ ConfirmTopupStart(p, TopupIDs)
        \/ ConfirmTopupStep(p)

Spec == Init /\ [][Next]_vars

\* the same requests when up to MaxFaults repository calls report an error
InitFault == InitWith(MaxFaults, InitTopups)

SpecFault == InitFault /\ [][Next]_vars

----------------------------------------------------------------------------
(* One request at a time: a single worker runs each request to completion, *)
(* and the clock and the room owner move only between requests.  Requests  *)
(* range over unknown rooms, users without a wallet, vouchers of every     *)
(* kind and slots in the past or of no length.                             *)

Quiescent == \A p \in Workers : workers[p].pc = "idle"

SeqNowPoints == {24, 25}
SeqPrices == {20}

\* <<customer, room, <<start, end>>, voucher code>>: "u3" has no wallet, "r2"
\* is unavailable, "r9" and "NOPE" do not exist
SeqRequests ==
    { <<"u1", "r1", <<48, 50>>, "">>,
      <<"u1", "r1", <<49, 51>>, "">>,
      <<"u2", "r1", <<50, 52>>, "HALF">>,
      <<"u2", "r1", <<48, 51>>, "">>,
      <<"u2", "r1", <<48, 51>>, "HALF">>,
      <<"u3", "r9", <<22, 20>>, "NOPE">>,
      <<"u3", "r9", <<20, 22>>, "NOPE">>,
      <<"u3", "r9", <<60, 60>>, "NOPE">>,
      <<"u3", "r2", <<48, 50>>, "NOPE">>,
      <<"u3", "r1", <<48, 50>>, "NOPE">>,
      <<"u3", "r1", <<48, 50>>, "LATE">>,
      <<"u3", "r1", <<48, 50>>, "USED">>,
      <<"u3", "r1", <<48, 50>>, "">> }

SeqTick == Quiescent /\ Tick(SeqNowPoints)

SeqUpdateMeetingRoom ==
    Quiescent /\ UpdateMeetingRoom({"r1"}, SeqPrices, {{}})

NextSeq ==
    \/ SeqTick
    \/ SeqUpdateMeetingRoom
    \/ \E p \in {1} :
        \/ CreateBookingStart(p, SeqRequests)
        \/ CreateBookingStep(p)
        \/ CancelBookingStart(p, {"u1", "u2"}, BookingIDs)
        \/ CancelBookingStep(p)
        \/ CreateTopupStart(p, {"u1", "u3"}, TopupAmounts)
        \/ CreateTopupInsert(p)
        \/ ConfirmTopupStart(p, TopupIDs)
        \/ ConfirmTopupStep(p)

InitSeq == InitWith(0, <<>>)

SpecSeq == InitSeq /\ [][NextSeq]_vars

----------------------------------------------------------------------------
(* Vouchers: bookings that use the voucher HALF run concurrently with the  *)
(* voucher administration (UpdateVoucher, CreateVoucher), and so does      *)
(* ApplyVoucher, at hour 24 and with no storage errors.  At that hour HALF  *)
(* is in its last valid hour, LATE in its first, and SOON not yet valid.   *)

VoucherBookings ==
    { <<"u1", "r1", <<48, 50>>, "HALF">>,
      <<"u1", "r1", <<50, 52>>, "HALF">> }

UpdateVoucherRequest(id, code, discountPercent, maxUses, validFrom, validTo) ==
    [id |-> id, code |-> code, discountPercent |-> discountPercent,
     maxUses |-> maxUses, validFrom |-> validFrom, validTo |-> validTo]

\* HALF becomes 20% with two uses; HALF is renamed to a code in use; an
\* unknown id; LATE becomes unlimited and ends at hour 23
VoucherUpdates ==
    { UpdateVoucherRequest("v1", "", 20, 2, {}, {}),
      UpdateVoucherRequest("v1", "USED", 50, 1, {}, {}),
      UpdateVoucherRequest("v9", "", 10, 1, {}, {}),
      UpdateVoucherRequest("v3", "", 10, 0, {0}, {23}) }

\* a free voucher valid at hour 24 only; a code in use; dates out of order
VoucherCreates ==
    { Voucher("NEW", 100, 0, 0, 24, 24),
      Voucher("HALF", 10, 1, 0, 0, 24),
      Voucher("BAD", 10, 1, 0, 5, 1) }

VoucherCodes == {"HALF", "USED", "LATE", "SOON", "NEW", "NOPE"}
ApplyAmounts == {100}

InitVoucher ==
    /\ now = 24
    /\ rooms = InitRooms
    /\ bookings = <<>>
    /\ vouchers = [v \in {"v1", "v2", "v3", "v4"} |->
                      IF v = "v4" THEN Voucher("SOON", 10, 0, 0, 25, 48)
                      ELSE InitVouchers[v]]
    /\ wallets = InitWallets
    /\ topups = <<>>
    /\ transactions = EmptyBag
    /\ workers = [p \in Workers |-> IdleWorker]
    /\ reply = NoReply
    /\ faults = 0
    /\ ledgerOps = EmptyBag

NextVoucher ==
    \E p \in Workers :
        \/ CreateBookingStart(p, VoucherBookings)
        \/ CreateBookingStep(p)
        \/ UpdateVoucherStart(p, VoucherUpdates)
        \/ UpdateVoucherStep(p)
        \/ CreateVoucherStart(p, VoucherCreates)
        \/ CreateVoucherInsert(p)

SpecVoucher == InitVoucher /\ [][NextVoucher]_vars

\* ApplyVoucher while the vouchers are administered
NextApply ==
    \E p \in Workers :
        \/ ApplyVoucher(p, VoucherCodes, ApplyAmounts)
        \/ UpdateVoucherStart(p, VoucherUpdates)
        \/ UpdateVoucherStep(p)
        \/ CreateVoucherStart(p, VoucherCreates)
        \/ CreateVoucherInsert(p)

SpecApply == InitVoucher /\ [][NextApply]_vars

----------------------------------------------------------------------------
(* Prices: one customer books room r1 with and without the voucher SAVE,   *)
(* one request at a time, for every price per hour, discount and balance   *)
(* of the sets below.  SAVE can be used twice: a request that is rejected  *)
(* for its balance has already counted as a use.                           *)

PricePoints == {10, 20}
PercentPoints == {10, 50, 100}
BalancePoints == {0, 17, 18, 50}

PriceRequests ==
    { <<"u1", "r1", <<48, 50>>, "">>,
      <<"u1", "r1", <<48, 50>>, "SAVE">>,
      <<"u1", "r1", <<50, 53>>, "SAVE">> }

InitPrice ==
    /\ now = 0
    /\ \E price \in PricePoints :
         rooms = [InitRooms EXCEPT !["r1"].pricePerHour = price]
    /\ bookings = <<>>
    /\ \E percent \in PercentPoints :
         vouchers = [v \in {"v1"} |-> Voucher("SAVE", percent, 2, 0, 0, 24)]
    /\ \E balance \in BalancePoints :
         wallets = [u \in {"u1"} |-> balance]
    /\ topups = <<>>
    /\ transactions = EmptyBag
    /\ workers = [p \in Workers |-> IdleWorker]
    /\ reply = NoReply
    /\ faults = 0
    /\ ledgerOps = EmptyBag

NextPrice ==
    \/ CreateBookingStart(1, PriceRequests)
    \/ CreateBookingStep(1)

SpecPrice == InitPrice /\ [][NextPrice]_vars

----------------------------------------------------------------------------
(* Storage errors: customer u1 books on room r1, u1 and u2 ask for         *)
(* cancellations, one request at a time, and up to MaxFaults repository    *)
(* calls return an error                                                   *)

FaultRequests ==
    { <<"u1", "r1", <<48, 50>>, "">>,
      <<"u1", "r1", <<49, 51>>, "HALF">> }

FaultCustomers == {"u1", "u2"}

NextSeqFault ==
    \/ CreateBookingStart(1, FaultRequests)
    \/ CreateBookingStep(1)
    \/ CancelBookingStart(1, FaultCustomers, BookingIDs)
    \/ CancelBookingStep(1)

SpecSeqFault == InitWith(MaxFaults, <<>>) /\ [][NextSeqFault]_vars

----------------------------------------------------------------------------
(* Availability: one booking of customer u2 is stored, on either room,     *)
(* booked or cancelled, over any interval of AvailHours; customer u1 then  *)
(* asks for room r1 over any interval of AvailHours, one request at a time *)

AvailHours == 48..51

AvailIntervals == {<<s, e>> \in AvailHours \X AvailHours : s < e}

AvailRequests ==
    {<<"u1", "r1", slot, "">> : slot \in AvailIntervals}
        \cup {<<"u1", "r1", <<48, 49>>, "HALF">>}

\* the row, the Transactions and the history that a booking of u2 has left
StoredBooking(roomID, slot, status) ==
    [customerID |-> "u2", roomID |-> roomID, startTime |-> slot[1],
     endTime |-> slot[2],
     totalPrice |-> InitRooms[roomID].pricePerHour * (slot[2] - slot[1]),
     voucherID |-> NoVoucher, status |-> status]

InitAvail ==
    /\ now = 0
    /\ rooms = InitRooms
    /\ \E roomID \in DOMAIN InitRooms, slot \in AvailIntervals,
          status \in {"booked", "cancelled"} :
         LET b      == StoredBooking(roomID, slot, status)
             paid   == Transaction("u2", ServiceBooking, 1, b.totalPrice, "completed")
             repaid == Transaction("u2", ServiceBooking, 1, -b.totalPrice, "refunded")
         IN  /\ bookings = <<b>>
             /\ wallets = [InitWallets EXCEPT
                              !["u2"] = IF status = "booked" THEN 40 - b.totalPrice ELSE 40]
             /\ transactions = IF status = "booked" THEN SetToBag({paid})
                                ELSE SetToBag({paid, repaid})
             /\ ledgerOps = IF status = "booked"
                             THEN SetToBag({<<"debit", 1>>, <<"success", 1>>})
                             ELSE SetToBag({<<"debit", 1>>, <<"success", 1>>,
                                            <<"refund", 1>>})
    /\ vouchers = InitVouchers
    /\ topups = <<>>
    /\ workers = [p \in Workers |-> IdleWorker]
    /\ reply = NoReply
    /\ faults = 0

NextAvail ==
    \/ CreateBookingStart(1, AvailRequests)
    \/ CreateBookingStep(1)

SpecAvail == InitAvail /\ [][NextAvail]_vars

----------------------------------------------------------------------------
(* Topups: CreateTopup and ConfirmTopup requests of two workers interleave *)
(* freely; u3 has no wallet                                                *)

TopupUsers == {"u1", "u2", "u3"}
TopupChoices == {10, 20}

NextTopup ==
    \E p \in Workers :
        \/ CreateTopupStart(p, TopupUsers, TopupChoices)
        \/ CreateTopupInsert(p)
        \/ ConfirmTopupStart(p, TopupIDs)
        \/ ConfirmTopupStep(p)

SpecTopup == InitSeq /\ [][NextTopup]_vars

----------------------------------------------------------------------------
(* Voucher dates: UpdateVoucher and CreateVoucher requests of two workers  *)
(* interleave freely.  USED is valid from 0 to 48: one update moves its    *)
(* start to 40, another its end to 30, a third renames it and makes it     *)
(* valid at hour 35 only; two updates of HALF would start it after its    *)
(* end at 24.                                                              *)

DateUpdates ==
    { UpdateVoucherRequest("v2", "", 10, 1, {40}, {}),
      UpdateVoucherRequest("v2", "", 10, 1, {}, {30}),
      UpdateVoucherRequest("v2", "OLD", 10, 1, {35}, {35}),
      UpdateVoucherRequest("v2", "OLD", 10, 1, {}, {}),
      UpdateVoucherRequest("v1", "", 50, 1, {30}, {}),
      UpdateVoucherRequest("v1", "HALF", 50, 1, {25}, {}) }

NextDates ==
    \E p \in Workers :
        \/ UpdateVoucherStart(p, DateUpdates)
        \/ UpdateVoucherStep(p)
        \/ CreateVoucherStart(p, VoucherCreates)
        \/ CreateVoucherInsert(p)

SpecDates == InitVoucher /\ [][NextDates]_vars

----------------------------------------------------------------------------
(* Voucher verdicts: while a CreateBooking with a voucher code is served,  *)
(* ApplyVoucher is served for any code and for the base prices of the      *)
(* bookings (2 and 3 hours of room r1), at hour 24                         *)

VerdictRequests ==
    { <<"u1", "r1", <<48, 50>>, code>> : code \in {"HALF", "USED", "LATE", "SOON", "NOPE"} }
        \cup { <<"u1", "r1", <<50, 53>>, "HALF">> }

VerdictAmounts == {20, 30}

NextVerdict ==
    \/ CreateBookingStart(1, VerdictRequests)
    \/ CreateBookingStep(1)
    \/ \E p \in Workers : ApplyVoucher(p, VoucherCodes, VerdictAmounts)

SpecVerdict == InitVoucher /\ [][NextVerdict]_vars

----------------------------------------------------------------------------
(* Properties *)

Booked(i) == bookings[i].status = "booked"

\* the last step returned res to the caller of an op request
Returned(op, res) == reply.op = op /\ reply.result = res

\* the request that arrives in this step, as its worker leaves it: in
\* flight, or already answered when it was rejected on arrival
Arrived ==
    LET started == {p \in Workers : workers[p].pc = "idle" /\ workers'[p].pc # "idle"}
    IN  IF started # {} THEN workers'[CHOOSE p \in started : TRUE]
        ELSE IF workers' = workers THEN reply'
        ELSE NoReply

BookingTransaction(w) ==
    Transaction(w.customerID, ServiceBooking, w.refID, w.totalPrice, "completed")

RefundTransaction(w) ==
    Transaction(w.customerID, ServiceBooking, w.refID, -w.totalPrice, "refunded")

TopupTransaction(t) ==
    Transaction(topups[t].userID, ServiceTopup, t, topups[t].amount, "completed")

\* C1: any two distinct bookings of the same room that both have status
\* "booked" have non-overlapping [startTime, endTime) intervals.
C1_NoDoubleBooking ==
    \A i, j \in DOMAIN bookings :
        (i # j /\ bookings[i].roomID = bookings[j].roomID /\ Booked(i) /\ Booked(j))
            => ~(bookings[i].startTime < bookings[j].endTime
                 /\ bookings[j].startTime < bookings[i].endTime)

\* C2: when one customer's wallet has only ever held its initial balance and
\* two CreateBooking requests of that customer each fit in it but together
\* exceed it, at most one of them returns success; and a request whose
\* guarded debit matched no row does not go on to success (it ends with
\* PaymentFailed).
C2_OneDebitOneSuccess ==
    /\ \A i, j \in DOMAIN bookings :
         ( /\ i # j
           /\ CopiesIn(<<"success", i>>, ledgerOps) > 0
           /\ CopiesIn(<<"success", j>>, ledgerOps) > 0
           /\ bookings[i].customerID = bookings[j].customerID
           /\ \A op \in BagToSet(ledgerOps) : op[1] \in {"debit", "success"}
           /\ bookings[i].totalPrice <= InitWallets[bookings[i].customerID]
           /\ bookings[j].totalPrice <= InitWallets[bookings[i].customerID] )
         => bookings[i].totalPrice + bookings[j].totalPrice
                <= InitWallets[bookings[i].customerID]
    /\ \A p \in Workers :
         workers[p].pc = "cb_txn"
            => CopiesIn(<<"debit", workers[p].refID>>, ledgerOps) > 0
    /\ Returned("CreateBooking", "ok")
            => CopiesIn(<<"debit", reply.refID>>, ledgerOps) > 0

\* C3: a CreateBooking that returned success with price P has reduced the
\* customer's balance by exactly P, and exactly one Transaction {customer,
\* serviceID 1, booking id, amount P, "completed"} exists for its booking.
C3_SuccessMeansCharged ==
    Returned("CreateBooking", "ok")
        => /\ reply.applied = -reply.totalPrice
           /\ CopiesIn(BookingTransaction(reply), transactions) = 1

\* C4: every wallet balance is >= 0 in every reachable state.
C4_BalanceNonNegative == \A u \in DOMAIN wallets : wallets[u] >= 0

\* C4 witness: a guarded debit met a balance below the price (a concurrent
\* request of the same customer was debited first) and left it as it was.
C4_Witness ==
    \E p \in Workers :
        /\ workers[p].pc = "cb_txn"
        /\ workers[p].totalPrice > 0
        /\ workers[p].applied = 0
        /\ wallets[workers[p].customerID] < workers[p].totalPrice
        /\ \E t \in DOMAIN topups : CopiesIn(<<"credit", t>>, ledgerOps) > 0
        /\ \E i \in DOMAIN bookings : ~Booked(i)

\* C5: for every topup the wallet is credited at most once and at most one
\* serviceID 2 Transaction exists, and both exist once a ConfirmTopup for
\* it has returned success.
C5_ConfirmedOnce ==
    \A t \in DOMAIN topups :
        /\ CopiesIn(<<"credit", t>>, ledgerOps) <= 1
        /\ CopiesIn(TopupTransaction(t), transactions) <= 1
        /\ (Returned("ConfirmTopup", "ok") /\ reply.refID = t)
             => /\ CopiesIn(<<"credit", t>>, ledgerOps) = 1
                /\ CopiesIn(TopupTransaction(t), transactions) = 1

\* C6: after a successful CancelBooking of a booking with stored totalPrice
\* P the booking is "cancelled", the call has raised the customer's balance
\* by exactly P (whatever the room costs by then), and one Transaction
\* {serviceID 1, booking id, amount -P, "refunded"} has been appended.
C6_RefundIsStoredPrice ==
    Returned("CancelBooking", "ok")
        => LET b == bookings[reply.refID]
           IN  /\ b.status = "cancelled"
               /\ reply.applied = b.totalPrice
               /\ reply.customerID = b.customerID
               /\ CopiesIn(Transaction(b.customerID, ServiceBooking,
                                       reply.refID, -b.totalPrice,
                                       "refunded"), transactions) = 1

\* C6 witness: a refund of a booking whose room has changed its price since
C6_Witness ==
    /\ Returned("CancelBooking", "ok")
    /\ LET b == bookings[reply.refID]
       IN  /\ b.totalPrice > 0
           /\ rooms[b.roomID].pricePerHour * (b.endTime - b.startTime)
                # b.totalPrice
           /\ b.voucherID = NoVoucher

\* C7: a ConfirmTopup for a completed topup returns NotPending, one for an
\* unknown id returns TopupNotFound, and neither changes a wallet, a topup
\* or the transaction ledger (nor any other table).
C7_RejectedConfirmChangesNothing ==
    [][Arrived.op = "ConfirmTopup" =>
          LET id == Arrived.refID
          IN  /\ id \notin DOMAIN topups
                  => /\ reply' = Arrived
                     /\ reply'.result = "TopupNotFound"
                     /\ UNCHANGED <<stores, ledgerOps>>
              /\ (id \in DOMAIN topups /\ topups[id].status = "completed")
                  => /\ reply' = Arrived
                     /\ reply'.result = "NotPending"
                     /\ UNCHANGED <<stores, ledgerOps>>]_vars

\* C7 witness: NotPending was returned for a completed topup that has been
\* credited once, while another request is in flight
C7_Witness ==
    /\ Returned("ConfirmTopup", "NotPending")
    /\ topups[reply.refID].status = "completed"
    /\ CopiesIn(<<"credit", reply.refID>>, ledgerOps) = 1
    /\ \E p \in Workers : workers[p].pc # "idle"

\* C8: a CreateBooking that fails one or more preconditions on arrival
\* returns the error of the first failing one in the order InvalidTimeRange,
\* PastBooking, RoomNotFound, RoomUnavailable, SlotConflict, InvalidVoucher,
\* VoucherExpired, VoucherExhausted, wallet missing, InsufficientBalance.
C8_FirstFailureWins ==
    (reply.op = "CreateBooking" /\ reply.expected # "ok")
        => reply.result = reply.expected

\* C8 witness: slot taken, voucher unknown and wallet missing at once
C8_Witness ==
    /\ Returned("CreateBooking", "SlotConflict")
    /\ VouchersByCode(vouchers, reply.voucherCode) = {}
    /\ reply.customerID \notin DOMAIN wallets

\* the part of C9 that both statements share: a request rejected for its
\* times is rejected on arrival and no table changes
C9_RejectedOnArrival ==
    (Arrived.endTime <= Arrived.startTime \/ Arrived.startTime < now)
        => /\ reply' = Arrived
           /\ UNCHANGED <<stores, ledgerOps>>

\* C9 as stated: endTime <= startTime always gives InvalidTimeRange, and
\* startTime < now always gives PastBooking, with no table changed.
C9_Original ==
    [][Arrived.op = "CreateBooking" =>
          /\ C9_RejectedOnArrival
          /\ Arrived.endTime <= Arrived.startTime
                 => Arrived.result = "InvalidTimeRange"
          /\ Arrived.startTime < now
                 => Arrived.result = "PastBooking"]_vars

\* C9 as amended: endTime <= startTime always gives InvalidTimeRange, and
\* startTime < now with endTime > startTime always gives PastBooking, for
\* any room, voucher and wallet state, with no table changed.
C9_TimesRejectedFirst ==
    [][Arrived.op = "CreateBooking" =>
          /\ C9_RejectedOnArrival
          /\ Arrived.endTime <= Arrived.startTime
                 => Arrived.result = "InvalidTimeRange"
          /\ (Arrived.startTime < now /\ Arrived.endTime > Arrived.startTime)
                 => Arrived.result = "PastBooking"]_vars

\* C9 witness: PastBooking for an unknown room, an unknown voucher and a
\* customer without a wallet
C9_Witness ==
    /\ Returned("CreateBooking", "PastBooking")
    /\ reply.roomID \notin DOMAIN rooms
    /\ VouchersByCode(vouchers, reply.voucherCode) = {}
    /\ reply.customerID \notin DOMAIN wallets

\* C10: a CancelBooking by the owner of a booked booking, d = startTime - now
\* on arrival: it returns TooLateToCancel when d < 24h; when d = 24h it
\* passes the checks and then returns success.
C10_CancelWindow ==
    [][/\ Arrived.op = "CancelBooking" =>
            LET id == Arrived.refID
            IN  ( /\ id \in DOMAIN bookings
                  /\ bookings[id].customerID = Arrived.customerID
                  /\ bookings[id].status = "booked" )
                => /\ bookings[id].startTime - now < 24
                       => /\ reply' = Arrived
                          /\ Arrived.result = "TooLateToCancel"
                   /\ bookings[id].startTime - now = 24
                       => Arrived.pc = "cn_cancel"
       /\ \A p \in Workers :
            ( /\ workers[p].pc \in {"cn_cancel", "cn_refund", "cn_txn"}
              /\ workers'[p].pc = "idle" )
            => reply'.result = "ok"]_vars

\* C10 witness: a cancellation exactly 24 hours before the start succeeded
C10_Witness ==
    /\ Returned("CancelBooking", "ok")
    /\ reply.startTime - now = 24

\* C11: a CancelBooking is rejected by the first failing check in the order
\* BookingNotFound, Unauthorized, AlreadyCancelled, TooLateToCancel, and a
\* rejected call changes no table; a booking changes its status, and a wallet
\* is refunded, only through a cancellation by the booking's own customer.
C11_CancelChecksInOrder ==
    [][/\ Arrived.op = "CancelBooking" =>
            LET id == Arrived.refID
                rejection ==
                    IF id \notin DOMAIN bookings THEN "BookingNotFound"
                    ELSE IF bookings[id].customerID # Arrived.customerID
                         THEN "Unauthorized"
                    ELSE IF bookings[id].status = "cancelled"
                         THEN "AlreadyCancelled"
                    ELSE IF bookings[id].startTime - now < 24
                         THEN "TooLateToCancel"
                    ELSE "none"
            IN  rejection # "none"
                    => /\ reply' = Arrived
                       /\ Arrived.result = rejection
                       /\ UNCHANGED <<stores, ledgerOps>>
       /\ \A i \in DOMAIN bookings :
            bookings'[i] # bookings[i]
                => \E p \in Workers :
                      /\ workers[p].op = "CancelBooking"
                      /\ workers[p].refID = i
                      /\ workers[p].customerID = bookings[i].customerID
       /\ \A p \in Workers :
            (workers[p].pc = "cn_refund" /\ wallets' # wallets)
                => /\ workers[p].customerID = bookings[workers[p].refID].customerID
                   /\ \A u \in DOMAIN wallets :
                         u # workers[p].customerID => wallets'[u] = wallets[u]]_vars

\* C11 witness: another customer's cancellation is refused as Unauthorized
\* although the booking is also cancelled already and starts within 24 hours
C11_Witness ==
    /\ Returned("CancelBooking", "Unauthorized")
    /\ bookings[reply.refID].status = "cancelled"
    /\ bookings[reply.refID].startTime - now < 24

\* C12: a voucher with a limit (maxUses > 0) is never used more often than
\* the limit allows: usedCount <= maxUses in every reachable state, whatever
\* the interleaving of CreateBooking, CreateVoucher and UpdateVoucher
C12_UsedWithinLimit ==
    \A v \in DOMAIN vouchers :
        vouchers[v].maxUses > 0 => vouchers[v].usedCount <= vouchers[v].maxUses

\* C13: the usedCount of a voucher never decreases, and the step of
\* CreateBooking that counts an accepted use of a voucher raises the
\* usedCount of that voucher by exactly 1
C13_UsedCountOnlyGrows ==
    [][/\ \A v \in DOMAIN vouchers : vouchers'[v].usedCount >= vouchers[v].usedCount
       /\ \A p \in Workers :
            (workers[p].pc = "cb_incr" /\ workers'[p].pc # "cb_incr")
                => vouchers'[workers[p].voucherID].usedCount
                       = vouchers[workers[p].voucherID].usedCount + 1]_vars

\* the price the booking of worker record w has to cost: the price per hour
\* of its room times its hours, less the percentage of its voucher
FinalPrice(w) ==
    LET basePrice == rooms[w.roomID].pricePerHour * (w.endTime - w.startTime)
        percent   == IF w.voucherID = NoVoucher THEN 0
                     ELSE vouchers[w.voucherID].discountPercent
    IN  basePrice - (basePrice * percent) \div 100

\* C14: the final price of a booking is pricePerHour * hours less that
\* amount * discountPercent / 100, and the balance check, the totalPrice of
\* the stored booking, the debit of the wallet and the amount of the
\* Transaction all use the final price
C14_FinalPriceEverywhere ==
    [][\A p \in Workers :
        LET w == workers[p]
            u == w.customerID
        IN  /\ (w.pc = "cb_wallet" /\ workers' # workers)
                 => (reply'.result = "InsufficientBalance" <=> wallets[u] < FinalPrice(w))
            /\ (w.pc = "cb_insert" /\ workers' # workers)
                 => /\ Len(bookings') = Len(bookings) + 1
                    /\ bookings'[Len(bookings')].totalPrice = FinalPrice(w)
            /\ (w.pc = "cb_debit" /\ workers' # workers)
                 => wallets'[u] = wallets[u] - FinalPrice(w)
            /\ (w.pc = "cb_txn" /\ workers' # workers)
                 => /\ Returned("CreateBooking", "ok")'
                    /\ transactions' = CreateTransaction(transactions,
                          Transaction(u, ServiceBooking, w.refID, FinalPrice(w), "completed"))
                    /\ bookings[w.refID].totalPrice = FinalPrice(w)
                    /\ w.applied = -FinalPrice(w)]_vars

\* 10 per hour, 2 hours, a 10% voucher and a balance of 50: the booking
\* costs 18 and leaves 32
C14_Witness ==
    /\ Returned("CreateBooking", "ok")
    /\ Len(bookings) = 1
    /\ rooms[reply.roomID].pricePerHour = 10
    /\ reply.endTime - reply.startTime = 2
    /\ reply.voucherID # NoVoucher
    /\ vouchers[reply.voucherID].discountPercent = 10
    /\ bookings[1].totalPrice = 18
    /\ BagIn(Transaction("u1", ServiceBooking, 1, 18, "completed"), transactions)
    /\ wallets["u1"] = 32

\* C15: ApplyVoucher answers InvalidVoucher for a code no voucher has,
\* VoucherExpired when now is outside [validFrom, validTo] (both ends are
\* valid), VoucherExhausted when maxUses > 0 and usedCount >= maxUses, and
\* for an accepted voucher discountAmount = amount * discountPercent / 100
\* and finalAmount = amount - discountAmount, between 0 and amount
C15_ApplyVoucherResult ==
    [][Arrived.op = "ApplyVoucher" =>
        LET matches == {v \in DOMAIN vouchers : vouchers[v].code = Arrived.voucherCode}
            amount  == Arrived.amount
        IN  /\ reply' = Arrived
            /\ IF matches = {} THEN Arrived.result = "InvalidVoucher"
               ELSE \E v \in matches :
                    IF now < vouchers[v].validFrom \/ vouchers[v].validTo < now
                        THEN Arrived.result = "VoucherExpired"
                    ELSE IF vouchers[v].maxUses > 0
                            /\ vouchers[v].usedCount >= vouchers[v].maxUses
                        THEN Arrived.result = "VoucherExhausted"
                    ELSE /\ Arrived.result = "ok"
                         /\ Arrived.discountAmount
                                = (amount * vouchers[v].discountPercent) \div 100
                         /\ Arrived.finalAmount = amount - Arrived.discountAmount
                         /\ Arrived.finalAmount \in 0..amount]_vars

\* 20% of 100 gives 20 and 80
C15_Witness ==
    /\ Returned("ApplyVoucher", "ok")
    /\ reply.amount = 100
    /\ vouchers[reply.voucherID].discountPercent = 20
    /\ reply.discountAmount = 20
    /\ reply.finalAmount = 80

\* C16: ApplyVoucher has no side effect: whether it accepts the voucher or
\* not, the step that serves it leaves the usedCount of every voucher and
\* the rooms, bookings, wallets, topups and transactions as they were
C16_ApplyVoucherReadsOnly ==
    [][Arrived.op = "ApplyVoucher" =>
        /\ \A v \in DOMAIN vouchers : vouchers'[v].usedCount = vouchers[v].usedCount
        /\ UNCHANGED <<stores, ledgerOps>>]_vars

\* HALF was accepted by ApplyVoucher and its single use is still unspent
C16_Witness ==
    /\ Returned("ApplyVoucher", "ok")
    /\ reply.voucherCode = "HALF"
    /\ vouchers[reply.voucherID].maxUses = 1
    /\ vouchers[reply.voucherID].usedCount = 0

\* C17: when the credit of the wallet fails in CancelBooking, after the
\* status of the booking was set to cancelled, the call returns
\* RefundFailed, the booking stays cancelled, the balance is unchanged and
\* no refund Transaction is appended
C17_RefundFailedKeepsCancellation ==
    [][\A p \in Workers :
        (workers[p].pc = "cn_refund" /\ faults' < faults) =>
            LET w == workers[p]
            IN  /\ Returned("CancelBooking", "RefundFailed")'
                /\ reply'.refID = w.refID
                /\ bookings[w.refID].status = "cancelled"
                /\ bookings'[w.refID].status = "cancelled"
                /\ wallets' = wallets
                /\ transactions' = transactions
                /\ ~BagIn(RefundTransaction(w), transactions')]_vars

C17_Witness ==
    /\ Returned("CancelBooking", "RefundFailed")
    /\ bookings[reply.refID].status = "cancelled"
    /\ BagIn(BookingTransaction(reply), transactions)
    /\ ~BagIn(RefundTransaction(reply), transactions)
    /\ wallets[reply.customerID] = InitWallets[reply.customerID] - reply.totalPrice

\* C18: when the Transaction cannot be stored in CreateBooking, the call
\* still returns success: the booking is stored with status "booked", the
\* wallet stays debited by the final price, and no Transaction is recorded
\* for the booking
C18_SuccessWithoutTransaction ==
    [][\A p \in Workers :
        (workers[p].pc = "cb_txn" /\ faults' < faults) =>
            LET w == workers[p]
            IN  /\ Returned("CreateBooking", "ok")'
                /\ reply'.refID = w.refID
                /\ bookings'[w.refID] = NewBooking(w)
                /\ bookings'[w.refID].status = "booked"
                /\ w.applied = -w.totalPrice
                /\ wallets' = wallets
                /\ transactions' = transactions
                /\ \A tx \in BagToSet(transactions') : tx.serviceRefID # w.refID]_vars

C18_Witness ==
    /\ Returned("CreateBooking", "ok")
    /\ Booked(reply.refID)
    /\ reply.totalPrice > 0
    /\ wallets[reply.customerID] = InitWallets[reply.customerID] - reply.totalPrice
    /\ transactions = EmptyBag

\* the bookings that are stored as booked although no debit was made for
\* them
Unpaid == {i \in DOMAIN bookings : Booked(i) /\ ~BagIn(<<"debit", i>>, ledgerOps)}

\* C19: when the debit of the wallet returns an error in CreateBooking, the
\* call returns PaymentFailed, no Transaction is appended and the balance
\* is unchanged, while the row already inserted stays stored as "booked"
\* and makes every later request that overlaps it end in SlotConflict
C19_PaymentFailedKeepsRow ==
    [][\A p \in Workers :
        LET w == workers[p]
        IN  /\ (w.pc = "cb_debit" /\ faults' < faults) =>
                  /\ Returned("CreateBooking", "PaymentFailed")'
                  /\ reply'.refID = w.refID
                  /\ wallets' = wallets
                  /\ transactions' = transactions
                  /\ \A tx \in BagToSet(transactions') : tx.serviceRefID # w.refID
                  /\ bookings' = bookings
                  /\ bookings'[w.refID].status = "booked"
                  /\ w.refID \in Unpaid'
            /\ (/\ w.pc = "cb_avail"
                /\ faults' = faults
                /\ workers' # workers
                /\ \E i \in Unpaid : /\ bookings[i].roomID = w.roomID
                                     /\ bookings[i].startTime < w.endTime
                                     /\ w.startTime < bookings[i].endTime)
                  => Returned("CreateBooking", "SlotConflict")']_vars

\* a request is turned away for a slot that only an unpaid booking holds
C19_Witness ==
    /\ Returned("CreateBooking", "SlotConflict")
    /\ Unpaid = {1}
    /\ Len(bookings) = 1
    /\ bookings[1].roomID = reply.roomID
    /\ wallets = InitWallets
    /\ transactions = EmptyBag

\* some booking on the room that is not cancelled has an interval [s, e)
\* with s < endTime and startTime < e
Taken(roomID, startTime, endTime) ==
    \E i \in DOMAIN bookings :
        /\ bookings[i].roomID = roomID
        /\ bookings[i].status # "cancelled"
        /\ bookings[i].startTime < endTime
        /\ startTime < bookings[i].endTime

\* C20: CheckRoomAvailability reports a room unavailable for [S, E) exactly
\* when some booking on that room that is not cancelled has an interval
\* [s, e) with s < E and S < e; so bookings that only touch do not conflict
\* and cancelled bookings and bookings on other rooms are ignored
C20_AvailabilityIsOverlapTest ==
    [][/\ \A roomID \in DOMAIN rooms, slot \in AvailIntervals :
            CheckRoomAvailability(bookings, roomID, slot[1], slot[2])
                <=> ~Taken(roomID, slot[1], slot[2])
       /\ \A p \in Workers :
            (workers[p].pc = "cb_avail" /\ workers' # workers)
                => (reply'.result = "SlotConflict"
                        <=> Taken(workers[p].roomID, workers[p].startTime,
                                  workers[p].endTime))]_vars

\* a booking that starts when the stored one ends was accepted
C20_Witness ==
    /\ Returned("CreateBooking", "ok")
    /\ Len(bookings) = 2
    /\ Booked(1) /\ Booked(2)
    /\ bookings[1].roomID = bookings[2].roomID
    /\ bookings[1].endTime = bookings[2].startTime

\* C21: a stored booking keeps its customerID, roomID, startTime, endTime,
\* totalPrice and voucherID, and its status only moves from booked to
\* cancelled: no step returns a cancelled booking to "booked"
C21_BookingImmutable ==
    [][\A i \in DOMAIN bookings :
        /\ i \in DOMAIN bookings'
        /\ bookings'[i].customerID = bookings[i].customerID
        /\ bookings'[i].roomID = bookings[i].roomID
        /\ bookings'[i].startTime = bookings[i].startTime
        /\ bookings'[i].endTime = bookings[i].endTime
        /\ bookings'[i].totalPrice = bookings[i].totalPrice
        /\ bookings'[i].voucherID = bookings[i].voucherID
        /\ \/ bookings'[i].status = bookings[i].status
           \/ bookings[i].status = "booked" /\ bookings'[i].status = "cancelled"]_vars

\* a second CancelBooking wrote the status of a booking that was already
\* cancelled, and the booking is still cancelled
C21_Witness ==
    /\ \E p \in Workers : /\ workers[p].pc = "cn_refund"
                          /\ CopiesIn(<<"refund", workers[p].refID>>, ledgerOps) > 0
                          /\ bookings[workers[p].refID].status = "cancelled"

\* C22: CreateTopup stores the topup as "pending" and changes no wallet
\* balance, and the status of a stored topup only moves from pending to
\* completed: a completed topup stays completed
C22_TopupStatusForward ==
    [][/\ \A p \in Workers :
            (workers[p].op = "CreateTopup" \/ workers'[p].op = "CreateTopup")
                /\ workers'[p] # workers[p]
            => /\ wallets' = wallets
               /\ \/ topups' = topups
                  \/ /\ Len(topups') = Len(topups) + 1
                     /\ SubSeq(topups', 1, Len(topups)) = topups
                     /\ topups'[Len(topups')].status = "pending"
       /\ Arrived.op = "CreateTopup" => wallets' = wallets /\ topups' = topups
       /\ \A i \in DOMAIN topups :
            /\ i \in DOMAIN topups'
            /\ topups'[i].userID = topups[i].userID
            /\ topups'[i].amount = topups[i].amount
            /\ \/ topups'[i].status = topups[i].status
               \/ topups[i].status = "pending" /\ topups'[i].status = "completed"]_vars

\* a second ConfirmTopup wrote the status of a topup that was already
\* completed and credited, and the topup is still completed
C22_Witness ==
    \E p \in Workers :
        /\ workers[p].pc = "ct_credit"
        /\ CopiesIn(<<"credit", workers[p].refID>>, ledgerOps) > 0
        /\ topups[workers[p].refID].status = "completed"

\* C23: every stored voucher has validTo >= validFrom, whatever the
\* interleaving of CreateVoucher and UpdateVoucher; a request whose row
\* would have validTo < validFrom is rejected and leaves the vouchers as
\* they were
C23_DatesInOrder ==
    [][/\ \A v \in DOMAIN vouchers : vouchers[v].validTo >= vouchers[v].validFrom
       /\ \A v \in DOMAIN vouchers' : vouchers'[v].validTo >= vouchers'[v].validFrom
       /\ reply'.result = "InvalidDates" => vouchers' = vouchers
       /\ \A p \in Workers :
            (workers[p].pc \in {"uv_save", "cv_insert"} /\ workers'[p] # workers[p])
                => workers[p].row.validTo >= workers[p].row.validFrom]_vars

\* an update that moved the end of USED to 30 has been stored while an
\* update that moves its start to 40 is about to be stored
C23_Witness ==
    /\ Returned("UpdateVoucher", "ok")
    /\ \E p \in Workers :
        /\ workers[p].pc = "uv_save"
        /\ workers[p].voucherID = reply.voucherID
        /\ workers[p].row.validFrom > vouchers[reply.voucherID].validTo

\* the base price of the booking that worker record w serves
BasePrice(w) == w.pricePerHour * (w.endTime - w.startTime)

\* ApplyVoucher has just answered for the code and the base price of the
\* booking that worker record w serves
AppliedFor(w) ==
    /\ reply.op = "ApplyVoucher"
    /\ reply.voucherCode = w.voucherCode
    /\ reply.amount = BasePrice(w)

\* C24: on the same vouchers, at the same time and for the same base
\* amount, the voucher step of CreateBooking and ApplyVoucher reach the
\* same verdict, and when the voucher is accepted the discounted price of
\* the booking is the finalAmount of ApplyVoucher
C24_SameVerdictSamePrice ==
    [][\A p \in Workers :
        LET w == workers[p]
        IN  /\ (w.pc = "cb_voucher" /\ AppliedFor(w) /\ workers'[p] # w) =>
                  IF reply.result = "ok"
                  THEN /\ workers'[p].pc = "cb_incr"
                       /\ workers'[p].totalPrice = reply.finalAmount
                       /\ workers'[p].voucherID = reply.voucherID
                  ELSE /\ Returned("CreateBooking", reply.result)'
                       /\ reply.result \in {"InvalidVoucher", "VoucherExpired",
                                            "VoucherExhausted"}
            /\ (w.pc = "cb_incr" /\ AppliedFor(w)) =>
                  /\ reply.result = "ok"
                  /\ reply.finalAmount = w.totalPrice
                  /\ reply.voucherID = w.voucherID]_vars

\* the booking has taken its discount of 50% on 3 hours and ApplyVoucher
\* has answered for the same code and base price before the use is counted
C24_Witness ==
    \E p \in Workers :
        /\ workers[p].pc = "cb_incr"
        /\ AppliedFor(workers[p])
        /\ reply.amount = 30
        /\ reply.finalAmount = 15
        /\ workers[p].totalPrice = 15

\* C25: when requests are served one at a time, no two "booked" bookings
\* of the same room ever overlap: the availability check answers
\* SlotConflict to every request that overlaps a booked booking of its room
C25_SequentialNoOverlap ==
    [][/\ Cardinality({p \in Workers : workers[p].pc # "idle"}) <= 1
       /\ \A i, j \in DOMAIN bookings' :
            (/\ i < j
             /\ bookings'[i].roomID = bookings'[j].roomID
             /\ bookings'[i].status = "booked"
             /\ bookings'[j].status = "booked")
                => \/ bookings'[i].endTime <= bookings'[j].startTime
                   \/ bookings'[j].endTime <= bookings'[i].startTime
       /\ \A p \in Workers :
            (/\ workers[p].pc = "cb_avail"
             /\ workers'[p] # workers[p]
             /\ \E i \in DOMAIN bookings :
                    /\ Booked(i)
                    /\ bookings[i].roomID = workers[p].roomID
                    /\ bookings[i].startTime < workers[p].endTime
                    /\ workers[p].startTime < bookings[i].endTime)
                => Returned("CreateBooking", "SlotConflict")']_vars

\* a request that nothing but the slot speaks against has been turned away
\* by a booked booking of its room that it overlaps
C25_Witness ==
    /\ Returned("CreateBooking", "SlotConflict")
    /\ reply.voucherCode = ""
    /\ reply.customerID \in DOMAIN wallets
    /\ wallets[reply.customerID] >= BasePrice(reply)
    /\ \E i \in DOMAIN bookings :
        /\ Booked(i)
        /\ bookings[i].roomID = reply.roomID
        /\ bookings[i].startTime < reply.endTime
        /\ reply.startTime < bookings[i].endTime
        /\ bookings[i].startTime # reply.startTime

RECURSIVE SumAmounts(_, _)
\* the sum of the amounts of the Transactions in the set txs, each counted
\* as often as the bag B holds it
SumAmounts(txs, B) ==
    IF txs = {} THEN 0
    ELSE LET tx == CHOOSE t \in txs : TRUE
         IN  tx.amount * CopiesIn(tx, B) + SumAmounts(txs \ {tx}, B)

\* the sum of the amounts of the user's Transactions of one service
Settled(userID, serviceID) ==
    SumAmounts({tx \in BagToSet(transactions) :
                    tx.userID = userID /\ tx.serviceID = serviceID}, transactions)

\* C26: when no request is in flight, the balance of every wallet is its
\* initial balance plus the user's topup Transactions (serviceID 2) minus
\* the user's booking Transactions (serviceID 1, refunds being negative)
C26_LedgerMatchesWallets ==
    Quiescent =>
        \A u \in DOMAIN wallets :
            wallets[u] = InitWallets[u] + Settled(u, ServiceTopup)
                                        - Settled(u, ServiceBooking)

\* C27: for every booking the wallet is credited with the refund at most
\* once and at most one "refunded" Transaction exists, whatever the
\* interleaving of CancelBooking calls
C27_RefundedOnce ==
    \A i \in DOMAIN bookings :
        /\ CopiesIn(<<"refund", i>>, ledgerOps) <= 1
        /\ CopiesIn(Transaction(bookings[i].customerID, ServiceBooking, i,
                                -bookings[i].totalPrice, "refunded"),
                    transactions) <= 1

\* C28: a CreateBooking call that ends in a precondition error changes no
\* table: no step of a call whose request fails a precondition on arrival
\* (InsufficientBalance and WalletNotFound included) changes the usedCount
\* of a voucher or stores a booking
C28_RejectedChangesNothing ==
    [][\A p \in Workers :
        (/\ workers[p].op = "CreateBooking"
         /\ workers[p].expected # "ok"
         /\ workers'[p] # workers[p])
            => /\ UNCHANGED stores
               /\ reply'.result \in {"none", workers[p].expected}]_vars

\* the bookings of the room of worker record w that overlap its interval
Rivals(w) ==
    {i \in DOMAIN bookings : /\ bookings[i].roomID = w.roomID
                             /\ bookings[i].startTime < w.endTime
                             /\ w.startTime < bookings[i].endTime}

\* C29: a cancelled booking no longer blocks its slot: a CreateBooking on
\* the same room whose interval overlaps cancelled bookings only passes the
\* availability check, and the cancelled bookings stay cancelled
C29_CancelledFreesSlot ==
    [][\A p \in Workers :
        LET w == workers[p]
        IN  (/\ w.pc = "cb_avail"
             /\ workers'[p] # w
             /\ Rivals(w) # {}
             /\ \A i \in Rivals(w) : bookings[i].status = "cancelled")
                => /\ workers'[p].pc \in {"cb_voucher", "cb_wallet"}
                   /\ reply' = NoReply
                   /\ bookings' = bookings]_vars

\* booking 1 was cancelled and refunded, and booking 2 now holds an
\* interval of the same room that overlaps it
C29_Witness ==
    /\ Returned("CreateBooking", "ok")
    /\ reply.refID = 2
    /\ Booked(2)
    /\ bookings[1].status = "cancelled"
    /\ CopiesIn(<<"refund", 1>>, ledgerOps) = 1
    /\ bookings[1].roomID = bookings[2].roomID
    /\ bookings[1].startTime < bookings[2].endTime
    /\ bookings[2].startTime < bookings[1].endTime

\* the bookings whose cancellation answered RefundFailed: stored as
\* cancelled, never refunded, and no cancellation of them is in flight
RefundLost ==
    {i \in DOMAIN bookings :
        /\ bookings[i].status = "cancelled"
        /\ CopiesIn(<<"refund", i>>, ledgerOps) = 0
        /\ \A p \in Workers : workers[p].pc = "idle" \/ workers[p].refID # i}

====
